---- MODULE Spec2Model ----
(***************************************************************************)
(* Model of Kamva/pantopoda: the outbound JSON HTTP client                 *)
(* (Pantopoda.Request and its convenience wrappers, one call and two       *)
(* concurrent calls), the query-string encoder (QueryParams.ToString /     *)
(* Empty), the StatusCode predicates and constants, the Response methods   *)
(* (Unmarshal / ToString), the validation adapter (Validate and            *)
(* BaseRequest.Validate) and the API responder (api.Response).             *)
(*                                                                         *)
(* Text (Go string / []byte) is a sequence of one-character strings, so    *)
(* that formatting and canonicalisation are computed character by          *)
(* character.                                                              *)
(***************************************************************************)
EXTENDS Integers, Sequences, FiniteSets, TLC

VARIABLES
    \* ---- QueryParams.ToString call ----
    qpc,        \* "idle" | "done"
    q,          \* the receiver: key -> sequence of values
    outSlice,   \* the local outSlice after the range loop
    out,        \* the returned string
    emptyRet,   \* what q.Empty() returned: "none" | "true" | "false"
    \* ---- Pantopoda.Request call ----
    pc,         \* position of the call
    op,         \* entry point used: "Request", "Get", "Post", ...
    method,     \* parameter method of Request
    argEndpoint,\* parameter endpoint as passed by the caller
    endpoint,   \* local endpoint (reassigned at line 24)
    request,    \* parameter request: [Payload, Query, Headers]
    b,          \* local b: body bytes
    req,        \* outbound *http.Request
    sends,      \* number of client.Do calls performed
    wire,       \* what client.Do returned (*http.Response or error)
    closes,     \* number of resp.Body.Close() calls
    resBody,    \* local resBody
    retResp,    \* first return value
    retErr,     \* second return value
    steps,      \* steps of the call executed so far, in order
    \* ---- StatusCode predicates ----
    spc,        \* "idle" | "done"
    sc,         \* the receiver s: a StatusCode
    class,      \* what the five predicates returned for s
    \* ---- Response held by a caller ----
    rpc,        \* "none" | "held"
    resp,       \* the Response value the caller holds
    resp0,      \* that value as it was when the caller got it
    lastOp,     \* last method called on resp: "none"|"Unmarshal"|"ToString"
    target,     \* shape of v in the last Unmarshal(v), "none" before
    decErr,     \* error returned by the last Unmarshal
    decVal,     \* what the last Unmarshal stored through v
    strRet,     \* string returned by the last ToString
    ncalls,     \* number of method calls made on resp
    \* ---- Validate call ----
    vpc,        \* "idle" | "done"
    vobj,       \* the parameter r: the request object
    verr,       \* the ValidationError returned
    \* ---- BaseRequest.Validate call on the same object ----
    bpc,        \* "idle" | "done" | "panic"
    berr,       \* the ValidationError returned
    \* ---- API Response call ----
    apc,        \* "idle" | "done"
    aop,        \* method called: "Response" or a named responder
    acode,      \* parameter code
    astatus,    \* the status handed to Response
    apayload,   \* parameter payload
    aheaders,   \* the variadic parameter: a sequence of ResponseHeader maps
    ctxLog,     \* calls made on r.ctx, in order
    \* ---- concurrent Request calls on one client ----
    calls,      \* per caller: position, parameters and locals of its call
    instance    \* the fields of the Pantopoda value behind c: none

qvars == <<qpc, q, outSlice, out, emptyRet>>
svars == <<spc, sc, class>>
rvars == <<rpc, resp, resp0, lastOp, target, decErr, decVal, strRet, ncalls>>
vvars == <<vpc, vobj, verr, bpc, berr>>
avars == <<apc, aop, acode, astatus, apayload, aheaders, ctxLog>>
kvars == <<calls, instance>>
cvars == <<pc, op, method, argEndpoint, endpoint, request, b, req, sends,
           wire, closes, resBody, retResp, retErr, steps>>
vars == <<qpc, q, outSlice, out, emptyRet, pc, op, method, argEndpoint,
          endpoint, request, b, req, sends, wire, closes, resBody, retResp,
          retErr, steps, spc, sc, class, rpc, resp, resp0, lastOp, target,
          decErr, decVal, strRet, ncalls, vpc, vobj, verr, bpc, berr, apc, aop,
          acode, astatus, apayload, aheaders, ctxLog, calls, instance>>

\* everything but the state of the Request call
nonClient == <<qvars, svars, rvars, vvars, avars, kvars>>
\* everything but the state of the QueryParams calls
nonQuery == <<cvars, svars, rvars, vvars, avars, kvars>>
\* everything but the state of the StatusCode calls
nonStatus == <<qvars, cvars, rvars, vvars, avars, kvars>>
\* everything but the state of the calls on a held Response
nonResponse == <<qvars, svars, vvars, avars, kvars>>
\* everything but the state of the Validate call
nonValidate == <<qvars, cvars, svars, rvars, avars, kvars>>
\* everything but the state of the API Response call
nonAPI == <<qvars, cvars, svars, rvars, vvars, kvars>>
\* everything but the state of the concurrent calls
nonConcurrent == <<qvars, cvars, svars, rvars, vvars, avars>>

\* ---------------------------------------------------------------------
\* Bounds
\* ---------------------------------------------------------------------
\* largest number of values a query key carries
MaxVals == 2

\* ---------------------------------------------------------------------
\* Text helpers
\* ---------------------------------------------------------------------
\* all sequences over V of length 0..n
SeqsUpTo(V, n) == UNION {[1..i -> V] : i \in 0..n}

\* all orders in which a Go map with key set S can be ranged over
Perms(S) == {f \in [1..Cardinality(S) -> S] :
                \A i, j \in 1..Cardinality(S) : f[i] = f[j] => i = j}

RECURSIVE Join(_, _)
\* strings.Join(elems, sep)
Join(elems, sep) ==
    IF elems = <<>> THEN <<>>
    ELSE IF Len(elems) = 1 THEN Head(elems)
    ELSE Head(elems) \o sep \o Join(Tail(elems), sep)

\* fmt's %s verb applied to a []string operand: "[" elements separated by
\* a space "]"
SprintfSlice(value) == <<"[">> \o Join(value, <<" ">>) \o <<"]">>

\* ---------------------------------------------------------------------
\* QueryParams
\* ---------------------------------------------------------------------
QKeys == {<<"a">>, <<"b">>}
QVals == {<<"1">>, <<"2", "3">>}

\* the QueryParams values over key set K with at most n values per key
QueryMaps(K, n) == UNION {[S -> SeqsUpTo(QVals, n)] : S \in SUBSET K}

\* keys and values made of the characters a query string gives meaning to
RawKeys == {<<"&", "=">>, <<"?", " ">>}
RawVals == {<<"[", "]">>, <<" ", "&">>, <<"=">>}

\* the QueryParams values over RawKeys and RawVals
RawQueryMaps == UNION {[S -> SeqsUpTo(RawVals, MaxVals)] : S \in SUBSET RawKeys}

\* url.QueryEscape on the characters used here
QueryEscape(t) ==
    LET esc(c) == CASE c = "&" -> <<"%", "2", "6">>
                    [] c = "=" -> <<"%", "3", "D">>
                    [] c = "?" -> <<"%", "3", "F">>
                    [] c = "[" -> <<"%", "5", "B">>
                    [] c = "]" -> <<"%", "5", "D">>
                    [] c = " " -> <<"+">>
                    [] OTHER -> <<c>>
    IN Join([i \in 1..Len(t) |-> esc(t[i])], <<>>)

\* a plausible slip: keys and values are passed through url.QueryEscape
Tokens_Escaped(key, value) ==
    IF Len(value) > 1
    THEN [i \in 1..Len(value) |->
             QueryEscape(key) \o <<"[", "]", "=">> \o QueryEscape(value[i])]
    ELSE << QueryEscape(key) \o <<"=">>
              \o SprintfSlice([i \in 1..Len(value) |-> QueryEscape(value[i])]) >>

\* a plausible slip: a key without values is skipped
Tokens_SkipEmpty(key, value) ==
    IF Len(value) > 1
    THEN [i \in 1..Len(value) |-> key \o <<"[", "]", "=">> \o value[i]]
    ELSE IF Len(value) = 0 THEN <<>>
    ELSE << key \o <<"=">> \o SprintfSlice(value) >>

\* a plausible slip: the multi-value branch forgets the array suffix
Tokens_NoSuffix(key, value) ==
    IF Len(value) > 1
    THEN [i \in 1..Len(value) |-> key \o <<"=">> \o value[i]]
    ELSE << key \o <<"=">> \o SprintfSlice(value) >>

\* body of the range loop of ToString: the tokens appended for one key
Tokens(key, value) ==
    IF Len(value) > 1
    THEN [i \in 1..Len(value) |-> key \o <<"[", "]", "=">> \o value[i]]
    ELSE << key \o <<"=">> \o SprintfSlice(value) >>

RECURSIVE RangeAppend(_, _)
\* the range loop of ToString when the map is iterated in the given order
RangeAppend(qp, order) ==
    IF order = <<>> THEN <<>>
    ELSE Tokens(Head(order), qp[Head(order)]) \o RangeAppend(qp, Tail(order))

\* QueryParams.ToString, for one iteration order of the map
ToStringIn(qp, order) == Join(RangeAppend(qp, order), <<"&">>)

\* every string ToString may return (map iteration order is unspecified)
ToStringResults(qp) == {ToStringIn(qp, o) : o \in Perms(DOMAIN qp)}

\* a plausible slip: emptiness judged by the values instead of the keys
Empty_NoValues(qp) == \A k \in DOMAIN qp : Len(qp[k]) = 0

\* QueryParams.Empty
Empty(qp) == Cardinality(DOMAIN qp) = 0

\* no ToString call of its own in progress
QIdle ==
    /\ qpc = "idle"
    /\ q = <<>>
    /\ outSlice = <<>>
    /\ out = <<>>
    /\ emptyRet = "none"

\* a QueryParams value on which ToString is about to be called
QInit ==
    /\ qpc = "idle"
    /\ q \in QueryMaps(QKeys, MaxVals)
    /\ outSlice = <<>>
    /\ out = <<>>
    /\ emptyRet = "none"

\* a QueryParams value of reserved characters on which ToString is about
\* to be called
QInitRaw ==
    /\ qpc = "idle"
    /\ q \in RawQueryMaps
    /\ outSlice = <<>>
    /\ out = <<>>
    /\ emptyRet = "none"

\* one call q.ToString()
QueryParams_ToString ==
    /\ qpc = "idle"
    /\ \E order \in Perms(DOMAIN q) :
          /\ outSlice' = RangeAppend(q, order)
          /\ out' = Join(RangeAppend(q, order), <<"&">>)
    /\ qpc' = "done"
    /\ UNCHANGED <<q, emptyRet>>
    /\ UNCHANGED nonQuery

\* one call q.Empty()
QueryParams_Empty ==
    /\ emptyRet = "none"
    /\ emptyRet' = IF Empty(q) THEN "true" ELSE "false"
    /\ UNCHANGED <<qpc, q, outSlice, out>>
    /\ UNCHANGED nonQuery

\* ---------------------------------------------------------------------
\* Request bodies (RequestBody, JSONBody, JSONArray)
\* ---------------------------------------------------------------------
\* A JSON value is "1" (the number 1) or "chan" (a Go channel, which
\* encoding/json cannot encode).
JKeyOrder == << <<"j">>, <<"k">> >>

\* json.Marshal fails on this map
MarshalFails(m) == \E k \in DOMAIN m : m[k] = "chan"

\* json.Marshal of a non-nil map: keys sorted, quoted, values as numbers
MarshalMap(m) ==
    LET keys == SelectSeq(JKeyOrder, LAMBDA k : k \in DOMAIN m)
        entry(k) == <<"\"">> \o k \o <<"\"", ":">> \o <<m[k]>>
    IN <<"{">> \o Join([i \in 1..Len(keys) |-> entry(keys[i])], <<",">>)
              \o <<"}">>

NullText == <<"n", "u", "l", "l">>

\* Request.Payload values: the nil interface, JSONBody (nil map or map),
\* JSONArray (slice of JSONBody)
NilPayload == [kind |-> "nil", null |-> TRUE, val |-> <<>>]
JSONBodyOf(m) == [kind |-> "JSONBody", null |-> FALSE, val |-> m]
JSONBodyNil == [kind |-> "JSONBody", null |-> TRUE, val |-> <<>>]
JSONArrayOf(ms) == [kind |-> "JSONArray", null |-> FALSE, val |-> ms]

Payloads ==
    { NilPayload,
      JSONBodyNil,
      JSONBodyOf(<<>>),
      JSONBodyOf(<<"k">> :> "1"),
      JSONBodyOf(<<"k">> :> "chan"),
      JSONArrayOf(<< (<<"k">> :> "1") >>),
      JSONArrayOf(<< (<<"k">> :> "chan") >>) }

\* Request.HasBody
HasBody(r) == r.Payload.kind # "nil"

\* a plausible slip: the error of json.Marshal is dropped and the nil
\* byte slice it returned is used
JSONBodyToJSON_ErrorDropped(p) ==
    IF p.null THEN [panic |-> FALSE, bytes |-> NullText]
    ELSE IF MarshalFails(p.val) THEN [panic |-> FALSE, bytes |-> <<>>]
    ELSE [panic |-> FALSE, bytes |-> MarshalMap(p.val)]

\* JSONBody.ToJSON: json.Marshal, then shark.PanicIfError
JSONBodyToJSON(p) ==
    IF p.null THEN [panic |-> FALSE, bytes |-> NullText]
    ELSE IF MarshalFails(p.val) THEN [panic |-> TRUE, bytes |-> <<>>]
    ELSE [panic |-> FALSE, bytes |-> MarshalMap(p.val)]

\* JSONArray.ToJSON: json.Marshal, then shark.PanicIfError
JSONArrayToJSON(p) ==
    IF p.null THEN [panic |-> FALSE, bytes |-> NullText]
    ELSE IF \E i \in 1..Len(p.val) : MarshalFails(p.val[i])
    THEN [panic |-> TRUE, bytes |-> <<>>]
    ELSE [panic |-> FALSE,
          bytes |-> <<"[">>
                    \o Join([i \in 1..Len(p.val) |-> MarshalMap(p.val[i])],
                            <<",">>)
                    \o <<"]">>]

\* request.Payload.ToJSON() as dispatched at client.go line 21; a method
\* call on the nil interface is a run-time panic
PayloadToJSON(p) ==
    IF p.kind = "nil" THEN [panic |-> TRUE, bytes |-> <<>>]
    ELSE IF p.kind = "JSONBody" THEN JSONBodyToJSON(p)
    ELSE JSONArrayToJSON(p)

\* ---------------------------------------------------------------------
\* Headers
\* ---------------------------------------------------------------------
HNames == {<<"a">>, <<"A">>, <<"b", "-", "c">>}
HVals == {<<"1">>, <<"2">>}

\* the RequestHeaders values of the model: every map over the two names
\* that differ only in case, and maps that also carry a third name
HeaderMaps ==
    UNION {[S -> HVals] : S \in SUBSET {<<"a">>, <<"A">>}}
    \cup {h \in [HNames -> HVals] :
              h[<<"b", "-", "c">>] = <<"1">> /\ h[<<"a">>] = <<"1">>}

TokenChars == {"a", "b", "c", "A", "B", "C", "-"}

ToUpper(c) == IF c = "a" THEN "A" ELSE IF c = "b" THEN "B"
              ELSE IF c = "c" THEN "C" ELSE c

ToLower(c) == IF c = "A" THEN "a" ELSE IF c = "B" THEN "b"
              ELSE IF c = "C" THEN "c" ELSE c

\* textproto.CanonicalMIMEHeaderKey, which http.Header.Set applies to the
\* key: first letter and letters after "-" upper case, the rest lower case;
\* a key with a non-token character is returned unchanged
CanonicalMIMEHeaderKey(s) ==
    IF \E i \in 1..Len(s) : s[i] \notin TokenChars THEN s
    ELSE [i \in 1..Len(s) |->
            IF i = 1 \/ s[i - 1] = "-" THEN ToUpper(s[i]) ELSE ToLower(s[i])]

\* a plausible slip: the key is stored as given (direct map assignment)
HeaderSet_Raw(h, key, value) ==
    [n \in DOMAIN h \cup {key} |-> IF n = key THEN <<value>> ELSE h[n]]

\* req.Header.Set(key, value)
HeaderSet(h, key, value) ==
    [n \in DOMAIN h \cup {CanonicalMIMEHeaderKey(key)} |->
        IF n = CanonicalMIMEHeaderKey(key) THEN <<value>> ELSE h[n]]

RECURSIVE RangeSet(_, _, _)
\* the range loop of lines 31-33 when the map is iterated in the given order
RangeSet(h, headers, order) ==
    IF order = <<>> THEN h
    ELSE RangeSet(HeaderSet(h, Head(order), headers[Head(order)]),
                  headers, Tail(order))

\* ---------------------------------------------------------------------
\* The remote side
\* ---------------------------------------------------------------------
WireStatuses == {200, 299, 300, 404}
WireHeaders == {<<>>, (<<"T">> :> << <<"1">> >>)}
WireBodies == {<<"{", "}">>, <<"x">>}

NoWire == [called |-> FALSE, err |-> FALSE, StatusCode |-> 0,
           Header |-> <<>>, Body |-> <<>>]

\* ---------------------------------------------------------------------
\* JSON text (encoding/json as used by Response.Unmarshal)
\* ---------------------------------------------------------------------
Digits == {"1", "2"}

\* a value stored through v: nothing, a map or a number
NoValue == [kind |-> "unset", obj |-> <<>>, num |-> "0"]
MapValue(m) == [kind |-> "map", obj |-> m, num |-> "0"]
IntValue(n) == [kind |-> "int", obj |-> <<>>, num |-> n]

\* encoding/json's scan of the bytes: which JSON value they are, if any
ParseJSON(data) ==
    IF data = <<"{", "}">>
    THEN [ok |-> TRUE, kind |-> "object", val |-> MapValue(<<>>)]
    ELSE IF /\ Len(data) = 7
            /\ data[1] = "{" /\ data[2] = "\"" /\ data[4] = "\""
            /\ data[5] = ":" /\ data[6] \in Digits /\ data[7] = "}"
    THEN [ok |-> TRUE, kind |-> "object",
          val |-> MapValue(<<data[3]>> :> data[6])]
    ELSE IF Len(data) = 1 /\ data[1] \in Digits
    THEN [ok |-> TRUE, kind |-> "number", val |-> IntValue(data[1])]
    ELSE IF data = NullText
    THEN [ok |-> TRUE, kind |-> "null", val |-> NoValue]
    ELSE [ok |-> FALSE, kind |-> "invalid", val |-> NoValue]

\* ---------------------------------------------------------------------
\* Response
\* ---------------------------------------------------------------------
\* the nil Response of the error returns
NilResponse == [nil |-> TRUE, json |-> <<>>, StatusCode |-> 0,
                Headers |-> <<>>]

\* the conversion Response(resBody) of line 48: the envelope is built from
\* the body bytes only; status code and headers keep their zero values
ResponseOf(body) == [nil |-> FALSE, json |-> body, StatusCode |-> 0,
                     Headers |-> <<>>]

\* newResponse(res, body)
newResponse(res, body) == [nil |-> FALSE, json |-> body,
                           StatusCode |-> res.StatusCode,
                           Headers |-> res.Header]

\* ---------------------------------------------------------------------
\* Pantopoda.Request
\* ---------------------------------------------------------------------
GET == <<"G", "E", "T">>
POST == <<"P", "O", "S", "T">>
PUT == <<"P", "U", "T">>
PATCH == <<"P", "A", "T", "C", "H">>
DELETE == <<"D", "E", "L", "E", "T", "E">>

\* methods a caller hands to Request directly
Methods == {GET, <<"G", " ">>, <<>>}
Endpoints == {<<"h", "/", "u">>, <<":">>}
\* the Query values of the model: every map over one key, and a two-key map
ClientQueries ==
    QueryMaps({<<"a">>}, MaxVals)
    \cup {[k \in QKeys |-> IF k = <<"a">> THEN << <<"1">> >>
                                            ELSE << <<"2", "3">> >>]}

Requests == [Payload : Payloads, Query : ClientQueries, Headers : HeaderMaps]

NoReq == [built |-> FALSE, Method |-> <<>>, URL |-> <<>>, Body |-> <<>>,
          Header |-> <<>>]

\* net/http validMethod: non-empty and made of token characters only
ValidMethod(m) == Len(m) > 0 /\ \A i \in 1..Len(m) : m[i] # " "

\* url.Parse fails on a URL that starts with a colon (missing scheme)
ParseOK(u) == u = <<>> \/ Head(u) # ":"

\* http.NewRequest(method, url, body): an empty method means GET
NewRequest(m, u, body) ==
    LET mm == IF m = <<>> THEN GET ELSE m
    IN IF ValidMethod(mm) /\ ParseOK(u)
       THEN [built |-> TRUE, Method |-> mm, URL |-> u, Body |-> body,
             Header |-> <<>>]
       ELSE NoReq

CInit ==
    /\ pc = "idle"
    /\ op = "none"
    /\ method = <<>>
    /\ argEndpoint = <<>>
    /\ endpoint = <<>>
    /\ request = [Payload |-> NilPayload, Query |-> <<>>, Headers |-> <<>>]
    /\ b = <<>>
    /\ req = NoReq
    /\ sends = 0
    /\ wire = NoWire
    /\ closes = 0
    /\ resBody = <<>>
    /\ retResp = NilResponse
    /\ retErr = "nil"
    /\ steps = <<>>

\* entry into Request: parameters bound
Invoke(name, m, e, r) ==
    /\ pc = "idle"
    /\ pc' = "start"
    /\ op' = name
    /\ method' = m
    /\ argEndpoint' = e
    /\ endpoint' = e
    /\ request' = r
    /\ UNCHANGED <<b, req, sends, wire, closes, resBody, retResp, retErr,
                   steps>>
    /\ UNCHANGED nonClient

\* c.Request(method, endpoint, request)
Request(m, e, r) == Invoke("Request", m, e, r)

\* a plausible slip: Put forwards the wrong method string
Put_Post(e, r) == Invoke("Put", POST, e, r)

\* c.Get(endpoint, request)
Get(e, r) == Invoke("Get", GET, e, r)
\* c.Post(endpoint, request)
Post(e, r) == Invoke("Post", POST, e, r)
\* c.Put(endpoint, request)
Put(e, r) == Invoke("Put", PUT, e, r)
\* c.Patch(endpoint, request)
Patch(e, r) == Invoke("Patch", PATCH, e, r)
\* c.Delete(endpoint, request)
Delete(e, r) == Invoke("Delete", DELETE, e, r)

\* line 21: b := request.Payload.ToJSON()
Serialize ==
    /\ pc = "start"
    /\ LET j == PayloadToJSON(request.Payload)
       IN IF j.panic
          THEN /\ pc' = "panic"
               /\ UNCHANGED b
          ELSE /\ pc' = "build"
               /\ b' = j.bytes
    /\ steps' = Append(steps, "serialize")
    /\ UNCHANGED <<op, method, argEndpoint, endpoint, request, req, sends,
                   wire, closes, resBody, retResp, retErr>>
    /\ UNCHANGED nonClient

\* a plausible slip: the "?" is appended whether or not there is a query
QueryEndpoint_Always(e, qp, order) == e \o <<"?">> \o ToStringIn(qp, order)

\* lines 23-25: the endpoint with its query string
QueryEndpoint(e, qp, order) ==
    IF ~Empty(qp) THEN e \o <<"?">> \o ToStringIn(qp, order) ELSE e

\* a plausible slip: the error of http.NewRequest is not checked
BuildError_FallThrough ==
    /\ pc' = "headers"
    /\ UNCHANGED <<retResp, retErr>>

\* lines 27-29: http.NewRequest failed
BuildError ==
    /\ pc' = "done"
    /\ retResp' = NilResponse
    /\ retErr' = "build"

\* lines 23-29: query string, http.NewRequest, return on error
Build ==
    /\ pc = "build"
    /\ \E order \in Perms(DOMAIN request.Query) :
          /\ endpoint' = QueryEndpoint(endpoint, request.Query, order)
          /\ LET r == NewRequest(method, endpoint', b)
             IN IF r.built
                THEN /\ req' = r
                     /\ pc' = "headers"
                     /\ UNCHANGED <<retResp, retErr>>
                ELSE /\ req' = req
                     /\ BuildError
    /\ steps' = Append(steps, "build")
    /\ UNCHANGED <<op, method, argEndpoint, request, b, sends, wire, closes,
                   resBody>>
    /\ UNCHANGED nonClient

\* lines 31-33: apply every header of the envelope
ApplyHeaders ==
    /\ pc = "headers"
    /\ \E order \in Perms(DOMAIN request.Headers) :
          req' = [req EXCEPT !.Header = RangeSet(req.Header, request.Headers,
                                                 order)]
    /\ pc' = "send"
    /\ steps' = Append(steps, "headers")
    /\ UNCHANGED <<op, method, argEndpoint, endpoint, request, b, sends, wire,
                   closes, resBody, retResp, retErr>>
    /\ UNCHANGED nonClient

\* a plausible slip: a failed send is tried again
SendFailed_Retry ==
    /\ pc' = "send"
    /\ UNCHANGED <<retResp, retErr>>

\* lines 37-39: the send failed
SendFailed ==
    /\ pc' = "done"
    /\ retResp' = NilResponse
    /\ retErr' = "transport"

\* lines 35-39: client.Do(req); the remote's answer is the environment's
Send ==
    /\ pc = "send"
    /\ sends' = sends + 1
    /\ \/ /\ wire' = [NoWire EXCEPT !.called = TRUE, !.err = TRUE]
          /\ SendFailed
       \/ \E st \in WireStatuses, hd \in WireHeaders, bd \in WireBodies :
             /\ wire' = [called |-> TRUE, err |-> FALSE, StatusCode |-> st,
                         Header |-> hd, Body |-> bd]
             /\ pc' = "read"
             /\ UNCHANGED <<retResp, retErr>>
    /\ steps' = Append(steps, "send")
    /\ UNCHANGED <<op, method, argEndpoint, endpoint, request, b, req, closes,
                   resBody>>
    /\ UNCHANGED nonClient

\* a plausible slip: Close is called after the read instead of deferred,
\* so the early return on a read error leaves the body open
ReadBody_CloseNotDeferred ==
    /\ pc = "read"
    /\ \/ /\ resBody' = wire.Body
          /\ pc' = "return"
          /\ steps' = Append(steps, "read")
          /\ UNCHANGED <<retResp, retErr, closes>>
       \/ /\ retResp' = NilResponse
          /\ retErr' = "read"
          /\ pc' = "done"
          /\ steps' = Append(steps, "read")
          /\ UNCHANGED <<resBody, closes>>
    /\ UNCHANGED <<op, method, argEndpoint, endpoint, request, b, req, sends,
                   wire>>
    /\ UNCHANGED nonClient

\* lines 41-46: defer Close; ioutil.ReadAll(resp.Body); on a read error
\* return, which runs the deferred Close
ReadBody ==
    /\ pc = "read"
    /\ \/ /\ resBody' = wire.Body
          /\ pc' = "return"
          /\ steps' = Append(steps, "read")
          /\ UNCHANGED <<retResp, retErr, closes>>
       \/ /\ retResp' = NilResponse
          /\ retErr' = "read"
          /\ closes' = closes + 1
          /\ pc' = "done"
          /\ steps' = steps \o <<"read", "close">>
          /\ UNCHANGED resBody
    /\ UNCHANGED <<op, method, argEndpoint, endpoint, request, b, req, sends,
                   wire>>
    /\ UNCHANGED nonClient

\* a plausible slip: a body that is not JSON fails the call
Return_Validating ==
    /\ pc = "return"
    /\ retResp' = IF ParseJSON(resBody).ok THEN ResponseOf(resBody)
                  ELSE NilResponse
    /\ retErr' = IF ParseJSON(resBody).ok THEN "nil" ELSE "decode"
    /\ closes' = closes + 1
    /\ pc' = "done"
    /\ steps' = Append(steps, "close")
    /\ UNCHANGED <<op, method, argEndpoint, endpoint, request, b, req, sends,
                   wire, resBody>>
    /\ UNCHANGED nonClient

\* line 48: return Response(resBody), nil; the deferred Close runs
Return ==
    /\ pc = "return"
    /\ retResp' = ResponseOf(resBody)
    /\ retErr' = "nil"
    /\ closes' = closes + 1
    /\ pc' = "done"
    /\ steps' = Append(steps, "close")
    /\ UNCHANGED <<op, method, argEndpoint, endpoint, request, b, req, sends,
                   wire, resBody>>
    /\ UNCHANGED nonClient

\* ---------------------------------------------------------------------
\* StatusCode
\* ---------------------------------------------------------------------
\* the status codes of the model run from MinStatus to MaxStatus
MinStatus == 95
MaxStatus == 605

\* StatusCode.IsInformational
IsInformational(v) == v >= 100 /\ v < 200

\* a plausible slip: the upper end of the band is included
IsSuccess_Inclusive(v) == v >= 200 /\ v <= 300

\* StatusCode.IsSuccess
IsSuccess(v) == v >= 200 /\ v < 300

\* StatusCode.IsRedirection
IsRedirection(v) == v >= 300 /\ v < 400

\* StatusCode.IsClientError
IsClientError(v) == v >= 400 /\ v < 500

\* a plausible change: the boundary value is included
IsInternalError_From500(v) == v >= 500

\* StatusCode.IsInternalError
IsInternalError(v) == v > 500

\* no StatusCode call in progress
SIdle ==
    /\ spc = "idle"
    /\ sc = 0
    /\ class = <<>>

\* a StatusCode value on which the predicates are about to be called
SInit ==
    /\ spc = "idle"
    /\ sc \in MinStatus..MaxStatus
    /\ class = <<>>

\* the five predicates are called on sc
Classify ==
    /\ spc = "idle"
    /\ spc' = "done"
    /\ class' = [IsInformational |-> IsInformational(sc),
                 IsSuccess |-> IsSuccess(sc),
                 IsRedirection |-> IsRedirection(sc),
                 IsClientError |-> IsClientError(sc),
                 IsInternalError |-> IsInternalError(sc)]
    /\ UNCHANGED sc
    /\ UNCHANGED nonStatus

\* ---------------------------------------------------------------------
\* Response.Unmarshal and Response.ToString
\* ---------------------------------------------------------------------
\* largest number of method calls a caller makes on one Response
MaxCalls == 2

\* the bodies a held Response may carry: an object, not JSON, an object
\* with a member, a number, null
RespBodies ==
    WireBodies
    \cup { <<"{", "\"", "k", "\"", ":", "1", "}">>, <<"1">>, NullText }

\* the Go types of the value v points to in Unmarshal(v)
TargetShapes == {"map", "int"}

\* json.Unmarshal(data, v) for v pointing to a value of the given shape:
\* a syntax error for bytes that are not JSON, nothing stored for null, a
\* type error when the JSON value does not fit the shape
Unmarshal(data, shape) ==
    LET parsed == ParseJSON(data)
    IN IF ~parsed.ok THEN [err |-> "syntax", val |-> NoValue]
       ELSE IF parsed.kind = "null" THEN [err |-> "nil", val |-> NoValue]
       ELSE IF parsed.kind = "object" /\ shape = "map"
       THEN [err |-> "nil", val |-> parsed.val]
       ELSE IF parsed.kind = "number" /\ shape = "int"
       THEN [err |-> "nil", val |-> parsed.val]
       ELSE [err |-> "type", val |-> NoValue]

\* no caller holds a Response
RIdle ==
    /\ rpc = "none"
    /\ resp = NilResponse
    /\ resp0 = NilResponse
    /\ lastOp = "none"
    /\ target = "none"
    /\ decErr = "nil"
    /\ decVal = NoValue
    /\ strRet = <<>>
    /\ ncalls = 0

\* the Response values of the package: built by newResponse from a wire
\* response, or converted from the body bytes
Envelopes ==
    {newResponse([StatusCode |-> st, Header |-> hd], bd) :
        st \in WireStatuses, hd \in WireHeaders, bd \in RespBodies}
    \cup {ResponseOf(bd) : bd \in RespBodies}

\* a caller holds some Response
RInit ==
    /\ rpc = "held"
    /\ resp \in Envelopes
    /\ resp0 = resp
    /\ lastOp = "none"
    /\ target = "none"
    /\ decErr = "nil"
    /\ decVal = NoValue
    /\ strRet = <<>>
    /\ ncalls = 0

\* the caller of Request takes the Response it returned
Receive ==
    /\ pc = "done"
    /\ ~retResp.nil
    /\ rpc = "none"
    /\ rpc' = "held"
    /\ resp' = retResp
    /\ resp0' = retResp
    /\ UNCHANGED <<lastOp, target, decErr, decVal, strRet, ncalls>>
    /\ UNCHANGED cvars
    /\ UNCHANGED nonResponse

\* a plausible slip: decoding consumes the stored bytes
Response_Unmarshal_Consuming(shape) ==
    /\ rpc = "held"
    /\ ncalls < MaxCalls
    /\ decErr' = Unmarshal(resp.json, shape).err
    /\ decVal' = Unmarshal(resp.json, shape).val
    /\ resp' = [resp EXCEPT !.json = <<>>]
    /\ lastOp' = "Unmarshal"
    /\ target' = shape
    /\ ncalls' = ncalls + 1
    /\ UNCHANGED <<rpc, resp0, strRet>>
    /\ UNCHANGED cvars
    /\ UNCHANGED nonResponse

\* r.Unmarshal(v)
Response_Unmarshal(shape) ==
    /\ rpc = "held"
    /\ ncalls < MaxCalls
    /\ decErr' = Unmarshal(resp.json, shape).err
    /\ decVal' = Unmarshal(resp.json, shape).val
    /\ lastOp' = "Unmarshal"
    /\ target' = shape
    /\ ncalls' = ncalls + 1
    /\ UNCHANGED <<rpc, resp, resp0, strRet>>
    /\ UNCHANGED cvars
    /\ UNCHANGED nonResponse

\* a plausible slip: only a JSON body is given back
Response_ToString_JSONOnly ==
    /\ rpc = "held"
    /\ ncalls < MaxCalls
    /\ strRet' = IF ParseJSON(resp.json).ok THEN resp.json ELSE <<>>
    /\ lastOp' = "ToString"
    /\ ncalls' = ncalls + 1
    /\ UNCHANGED <<rpc, resp, resp0, target, decErr, decVal>>
    /\ UNCHANGED cvars
    /\ UNCHANGED nonResponse

\* r.ToString()
Response_ToString ==
    /\ rpc = "held"
    /\ ncalls < MaxCalls
    /\ strRet' = resp.json
    /\ lastOp' = "ToString"
    /\ ncalls' = ncalls + 1
    /\ UNCHANGED <<rpc, resp, resp0, target, decErr, decVal>>
    /\ UNCHANGED cvars
    /\ UNCHANGED nonResponse

\* ---------------------------------------------------------------------
\* Validate
\* ---------------------------------------------------------------------
\* largest number of failures the rule engine reports for one object
MaxFailures == 3

BadRequest == "bad_request"
RuleViolation == "validation_failed"

UserName == <<"U", "s", "e", "r", "N", "a", "m", "e">>
Age == <<"A", "g", "e">>

\* struct field names and rule tags of the request objects of the model
Fields == {UserName, Age}
Tags == {"required", "min"}

\* what the rule engine reports for one failed rule: err.StructField() and
\* err.Tag()
FieldErrors == [field : Fields, tag : Tags]

\* the request objects: one the rule engine cannot evaluate (a nil
\* pointer), and objects of one struct type together with the failures the
\* engine finds in them, in the order it reports them
Objects ==
    {[evaluable |-> FALSE, typ |-> "T", violations |-> <<>>]}
    \cup {[evaluable |-> TRUE, typ |-> "T", violations |-> v] :
             v \in SeqsUpTo(FieldErrors, MaxFailures)}

\* validate.Struct(r): nil, *validator.InvalidValidationError, or
\* validator.ValidationErrors
ValidateStruct(r) ==
    IF ~r.evaluable THEN [kind |-> "InvalidValidationError", errs |-> <<>>]
    ELSE IF r.violations = <<>> THEN [kind |-> "nil", errs |-> <<>>]
    ELSE [kind |-> "ValidationErrors", errs |-> r.violations]

UpperLetters == {"U", "N", "A"}

\* the lower-case form of a letter
LowerOf(c) == IF c = "U" THEN "u" ELSE IF c = "N" THEN "n"
              ELSE IF c = "A" THEN "a" ELSE c

RECURSIVE SnakeFrom(_, _)
\* the characters of name from position i on, in snake case
SnakeFrom(name, i) ==
    IF i > Len(name) THEN <<>>
    ELSE (IF name[i] \in UpperLetters /\ i > 1
          THEN <<"_", LowerOf(name[i])>>
          ELSE <<LowerOf(name[i])>>) \o SnakeFrom(name, i + 1)

\* a plausible slip: the name is lower-cased without word separators
ToSnake_LowerOnly(name) == [i \in 1..Len(name) |-> LowerOf(name[i])]

\* nautilus.ToSnake: an underscore before every inner upper-case letter,
\* all letters lower case
ToSnake(name) == SnakeFrom(name, 1)

\* orca.GetTranslationKey(t, field, tag): the lookup is keyed by the
\* object, the struct field and the rule tag
GetTranslationKey(t, field, tag) == <<t.typ, field, tag>>

\* the zero shark.ErrorBag of ValidationError{}
NoErrorBag == [set |-> FALSE, entries |-> <<>>]

\* shark.NewErrorBag()
NewErrorBag == [set |-> TRUE, entries |-> <<>>]

\* errorBag.Append(key, message)
BagAppend(bag, key, message) ==
    [bag EXCEPT !.entries = Append(@, [key |-> key, msg |-> message])]

RECURSIVE RangeErrors(_, _, _)
\* lines 24-29: the loop over the reported failures
RangeErrors(bag, t, errs) ==
    IF errs = <<>> THEN bag
    ELSE RangeErrors(BagAppend(bag, ToSnake(Head(errs).field),
                               GetTranslationKey(t, Head(errs).field,
                                                 Head(errs).tag)),
                     t, Tail(errs))

\* a plausible slip: the bag is created before the kind of error is known
BadRequestError_WithBag == [ErrorType |-> BadRequest, ErrorBag |-> NewErrorBag]

\* lines 18-19: the result for an InvalidValidationError
BadRequestError == [ErrorType |-> BadRequest, ErrorBag |-> NoErrorBag]

\* a plausible slip: the result starts out as a rule violation
ZeroValidationError_Typed ==
    [ErrorType |-> RuleViolation, ErrorBag |-> NoErrorBag]

\* line 13: validationError := ValidationError{}
ZeroValidationError == [ErrorType |-> "", ErrorBag |-> NoErrorBag]

\* Validate(r): what it returns
ValidateReturn(r) ==
    LET err == ValidateStruct(r)
    IN IF err.kind = "nil" THEN ZeroValidationError
       ELSE IF err.kind = "InvalidValidationError" THEN BadRequestError
       ELSE [ErrorType |-> RuleViolation,
             ErrorBag |-> RangeErrors(NewErrorBag, r, err.errs)]

\* no Validate call in progress
VIdle ==
    /\ vpc = "idle"
    /\ vobj = [evaluable |-> FALSE, typ |-> "T", violations |-> <<>>]
    /\ verr = ZeroValidationError
    /\ bpc = "idle"
    /\ berr = ZeroValidationError

\* a request object on which Validate is about to be called
VInit ==
    /\ vpc = "idle"
    /\ vobj \in Objects
    /\ verr = ZeroValidationError
    /\ bpc = "idle"
    /\ berr = ZeroValidationError

\* one call Validate(r)
Validate ==
    /\ vpc = "idle"
    /\ vpc' = "done"
    /\ verr' = ValidateReturn(vobj)
    /\ UNCHANGED <<vobj, bpc, berr>>
    /\ UNCHANGED nonValidate

\* the BaseRequest value embedded in a request object: a struct holding
\* nautilus.BaseTaggable and no field with a validation rule
EmbeddedBaseRequest(o) ==
    [evaluable |-> TRUE, typ |-> "BaseRequest", violations |-> <<>>]

\* BaseRequest.Validate: what it returns for the receiver r, a BaseRequest
\* value
BaseRequestValidateReturn(r) ==
    LET err == ValidateStruct(r)
    IN IF err.kind = "nil" THEN ZeroValidationError
       ELSE IF err.kind = "InvalidValidationError" THEN BadRequestError
       ELSE [ErrorType |-> RuleViolation,
             ErrorBag |-> RangeErrors(NewErrorBag, r, err.errs)]

\* one call o.Validate() of the method promoted from the embedded
\* BaseRequest: the receiver is a copy of the embedded value, and taking
\* it through a nil pointer is a run-time panic
BaseRequest_Validate ==
    /\ bpc = "idle"
    /\ IF vobj.evaluable
       THEN /\ bpc' = "done"
            /\ berr' = BaseRequestValidateReturn(EmbeddedBaseRequest(vobj))
       ELSE /\ bpc' = "panic"
            /\ UNCHANGED berr
    /\ UNCHANGED <<vpc, vobj, verr>>
    /\ UNCHANGED nonValidate

\* ---------------------------------------------------------------------
\* API Response (package api) and the StatusCode constants
\* ---------------------------------------------------------------------
\* largest number of ResponseHeader maps passed to one call
MaxHeaderMaps == 2

\* the const blocks of StatusCode, in declaration order; "_" is the blank
\* identifier, which takes a value of iota and declares nothing
InformationalBlock ==
    [base |-> 100,
     names |-> <<"Continue", "SwitchingProtocols", "Processing">>]

SuccessBlock ==
    [base |-> 200,
     names |-> <<"OK", "Created", "Accepted", "NonAuthoritativeInformation",
                 "NoContent", "ResetContent", "PartialContent", "MultiStatus",
                 "AlreadyReported">>]

RedirectionBlock ==
    [base |-> 300,
     names |-> <<"MultipleChoices", "MovedPermanently", "Found", "SeeOther",
                 "NotModified", "UseProxy", "_", "TemporaryRedirect",
                 "PermanentRedirect">>]

\* a plausible slip: the blank identifiers that skip the unassigned codes
\* are left out
ClientErrorBlock_NoBlanks ==
    [base |-> 400,
     names |-> <<"BadRequest", "Unauthorized", "PaymentRequired", "Forbidden",
                 "NotFound", "MethodNotAllowed", "NotAcceptable",
                 "ProxyAuthenticationRequired", "RequestTimeout", "Conflict",
                 "Gone", "LengthRequired", "PreconditionFailed",
                 "PayloadTooLarge", "RequestURITooLong",
                 "UnsupportedMediaType", "RequestedRangeNotSatisfiable",
                 "ExpectationFailed", "ImATeapot",
                 "MisdirectedRequest", "UnprocessableEntity", "Locked",
                 "FailedDependency", "UpgradeRequired",
                 "PreconditionRequired", "TooManyRequests",
                 "RequestHeaderFieldsTooLarge">>]

ClientErrorBlock ==
    [base |-> 400,
     names |-> <<"BadRequest", "Unauthorized", "PaymentRequired", "Forbidden",
                 "NotFound", "MethodNotAllowed", "NotAcceptable",
                 "ProxyAuthenticationRequired", "RequestTimeout", "Conflict",
                 "Gone", "LengthRequired", "PreconditionFailed",
                 "PayloadTooLarge", "RequestURITooLong",
                 "UnsupportedMediaType", "RequestedRangeNotSatisfiable",
                 "ExpectationFailed", "ImATeapot", "_", "_",
                 "MisdirectedRequest", "UnprocessableEntity", "Locked",
                 "FailedDependency", "_", "UpgradeRequired", "_",
                 "PreconditionRequired", "TooManyRequests", "_",
                 "RequestHeaderFieldsTooLarge">>]

ServerErrorBlock ==
    [base |-> 500,
     names |-> <<"InternalServerError", "NotImplemented", "BadGateway",
                 "ServiceUnavailable", "GatewayTimeout", "VersionNotSupported",
                 "VariantAlsoNegotiates", "InsufficientStorage",
                 "LoopDetected", "_", "NotExtended",
                 "NetworkAuthenticationRequired">>]

\* the constants declared with a value of their own
ExplicitStatus ==
    ("IMUsed" :> 226) @@ ("ConnectionClosedWithoutResponse" :> 444)
    @@ ("UnavailableForLegalReasons" :> 451) @@ ("ClientClosedRequest" :> 499)
    @@ ("NetworkConnectTimeoutError" :> 599)

ConstBlocks == <<InformationalBlock, SuccessBlock, RedirectionBlock,
                 ClientErrorBlock, ServerErrorBlock>>

\* the names of the StatusCode constants
StatusConstants ==
    (UNION {{ConstBlocks[j].names[i] : i \in 1..Len(ConstBlocks[j].names)} :
               j \in 1..Len(ConstBlocks)} \ {"_"})
    \cup DOMAIN ExplicitStatus

\* the value of a StatusCode constant: its own value, or iota (the
\* position in the block, from zero) plus the base of the block
HTTPStatus(name) ==
    IF name \in DOMAIN ExplicitStatus THEN ExplicitStatus[name]
    ELSE LET j == CHOOSE k \in 1..Len(ConstBlocks) :
                     \E i \in 1..Len(ConstBlocks[k].names) :
                        ConstBlocks[k].names[i] = name
             i == CHOOSE k \in 1..Len(ConstBlocks[j].names) :
                     ConstBlocks[j].names[k] = name
         IN ConstBlocks[j].base + (i - 1)

\* StatusCode.Int: the conversion int(s) of a value whose underlying type
\* is int
StatusCodeInt(v) == v

\* the constant a named responder hands to Response: the constant of the
\* method's own name, but for three methods
ForwardedConstant(name) ==
    CASE name = "NoAuthoritativeInformation" -> "NonAuthoritativeInformation"
      [] name = "ProxyAuthRequired" -> "ProxyAuthenticationRequired"
      [] name = "HTTPVersionNotSupported" -> "VersionNotSupported"
      [] OTHER -> name

\* the named responder methods of Response
ResponderNames ==
    (StatusConstants \ {"NonAuthoritativeInformation",
                        "ProxyAuthenticationRequired", "VersionNotSupported"})
    \cup {"NoAuthoritativeInformation", "ProxyAuthRequired",
          "HTTPVersionNotSupported"}

\* Go values held in an interface{}: nil or a string
GoNil == [kind |-> "nil", str |-> ""]
GoString(t) == [kind |-> "string", str |-> t]

\* nautilus.Empty: nil and the empty string are empty
NautilusEmpty(v) == v.kind = "nil" \/ (v.kind = "string" /\ v.str = "")

\* the code strings and payloads of the model
AppCodes == {"", "E1"}
APayloads == [Message : {"", "m"}, Data : {GoNil, GoString(""), GoString("d")}]

\* the ResponseHeader maps of the model
AHeaderMaps ==
    {h \in UNION {[S -> {"1", "2"}] : S \in SUBSET {"X", "Y"}} :
        "Y" \in DOMAIN h => h["Y"] = "1"}

\* statuses handed to Response directly: constants, and a StatusCode that
\* is none of them
GenericStatuses == {0, HTTPStatus("OK"), HTTPStatus("ImATeapot")}

\* mapstructure.Decode of a Payload into a map[string]interface{} fails:
\* never, both fields are exported and any value is assignable to
\* interface{}
DecodeFails(p) == FALSE

\* Payload.Map
PayloadMap(p) ==
    IF DecodeFails(p)
    THEN ("error" :> GoString("error in parsing response payload."))
    ELSE ("message" :> GoString(p.Message)) @@ ("data" :> p.Data)

RECURSIVE MergeInto(_, _)
\* lines 1459-1463: the loop over the maps, each assignment replacing what
\* responseHeader holds under the key
MergeInto(responseHeader, headers) ==
    IF headers = <<>> THEN responseHeader
    ELSE MergeInto(Head(headers) @@ responseHeader, Tail(headers))

\* a plausible slip: of a key in several maps the first value is kept
MergeHeaders_FirstWins(headers) ==
    LET keys == UNION {DOMAIN headers[i] : i \in 1..Len(headers)}
        first(k) == CHOOSE i \in 1..Len(headers) :
                       /\ k \in DOMAIN headers[i]
                       /\ \A j \in 1..(i - 1) : k \notin DOMAIN headers[j]
    IN [k \in keys |-> headers[first(k)][k]]

\* lines 1458-1463: responseHeader, empty at first, after the loop
MergeHeaders(headers) == MergeInto(<<>>, headers)

\* a plausible slip: the payload entries are copied without the test
ResponseBody_KeepEmpty(code, payloadMap) ==
    [k \in {"code"} \cup DOMAIN payloadMap |->
        IF k \in DOMAIN payloadMap THEN payloadMap[k] ELSE GoString(code)]

\* lines 1465-1473: body after the code and the non-empty payload entries
\* are stored, a payload entry replacing what is under its key
ResponseBody(code, payloadMap) ==
    LET kept == {k \in DOMAIN payloadMap : ~NautilusEmpty(payloadMap[k])}
    IN [k \in {"code"} \cup kept |->
          IF k \in kept THEN payloadMap[k] ELSE GoString(code)]

\* the calls on the context
CtxStatusCode(n) ==
    [call |-> "StatusCode", status |-> n, key |-> "", value |-> "",
     body |-> <<>>]
CtxHeader(k, v) ==
    [call |-> "Header", status |-> 0, key |-> k, value |-> v, body |-> <<>>]
CtxJSON(body) ==
    [call |-> "JSON", status |-> 0, key |-> "", value |-> "", body |-> body]

\* a plausible slip: the body is written before the headers are set
ContextCalls_BodyBeforeHeaders(status, responseHeader, order, body) ==
    << CtxStatusCode(StatusCodeInt(status)) >>
    \o << CtxJSON(body) >>
    \o [i \in 1..Len(order) |-> CtxHeader(order[i], responseHeader[order[i]])]

\* lines 1475-1481: the calls on r.ctx, the headers in the order the map
\* is iterated
ContextCalls(status, responseHeader, order, body) ==
    << CtxStatusCode(StatusCodeInt(status)) >>
    \o [i \in 1..Len(order) |-> CtxHeader(order[i], responseHeader[order[i]])]
    \o << CtxJSON(body) >>

\* no API Response call made on the context yet
AIdle ==
    /\ apc = "idle"
    /\ aop = "none"
    /\ acode = ""
    /\ astatus = 0
    /\ apayload = [Message |-> "", Data |-> GoNil]
    /\ aheaders = <<>>
    /\ ctxLog = <<>>

\* the body of Response, entered through the method name
Respond(name, code, status, payload, headers) ==
    /\ apc = "idle"
    /\ apc' = "done"
    /\ aop' = name
    /\ acode' = code
    /\ astatus' = status
    /\ apayload' = payload
    /\ aheaders' = headers
    /\ LET responseHeader == MergeHeaders(headers)
           body == ResponseBody(code, PayloadMap(payload))
       IN \E order \in Perms(DOMAIN responseHeader) :
             ctxLog' = ctxLog \o ContextCalls(status, responseHeader, order,
                                              body)
    /\ UNCHANGED nonAPI

\* r.Response(code, status, payload, headers...)
Response_Response(code, status, payload, headers) ==
    Respond("Response", code, status, payload, headers)

\* r.<name>(code, payload, header...): one of the named responders
Responder(name, code, payload, headers) ==
    Respond(name, code, HTTPStatus(ForwardedConstant(name)), payload, headers)

\* ---------------------------------------------------------------------
\* Concurrent Request calls on one client
\* ---------------------------------------------------------------------
\* the goroutines that call Request on the same *Pantopoda
Callers == {1, 2}

\* the calls they make
KMethods == {GET, POST}
KRequests ==
    { [Payload |-> JSONBodyOf(<<"k">> :> "1"),
       Query |-> (<<"a">> :> << <<"1">> >>),
       Headers |-> (<<"b", "-", "c">> :> <<"1">>)],
      [Payload |-> JSONArrayOf(<< (<<"k">> :> "1") >>),
       Query |-> <<>>,
       Headers |-> (<<"a">> :> <<"1">>) @@ (<<"A">> :> <<"2">>)],
      [Payload |-> JSONBodyOf(<<"k">> :> "chan"),
       Query |-> <<>>,
       Headers |-> <<>>] }

\* what the remote answers to them
KStatuses == {200, 404}

\* a call not yet made
NoCall ==
    [pc |-> "idle", method |-> <<>>, argEndpoint |-> <<>>, endpoint |-> <<>>,
     request |-> [Payload |-> NilPayload, Query |-> <<>>, Headers |-> <<>>],
     b |-> <<>>, req |-> NoReq, sends |-> 0, wire |-> NoWire, closes |-> 0,
     resBody |-> <<>>, retResp |-> NilResponse, retErr |-> "nil"]

\* no caller has called yet; the Pantopoda struct has no field
KIdle ==
    /\ calls = [i \in Callers |-> NoCall]
    /\ instance = <<>>

\* caller i enters c.Request(m, e, r)
InvokeBy(i, m, e, r) ==
    /\ calls[i].pc = "idle"
    /\ calls' = [calls EXCEPT ![i] =
                    [@ EXCEPT !.pc = "start", !.method = m,
                              !.argEndpoint = e, !.endpoint = e,
                              !.request = r]]
    /\ UNCHANGED instance
    /\ UNCHANGED nonConcurrent

\* line 21 in the call of caller i
SerializeBy(i) ==
    /\ calls[i].pc = "start"
    /\ LET j == PayloadToJSON(calls[i].request.Payload)
       IN calls' = [calls EXCEPT ![i] =
                       IF j.panic THEN [@ EXCEPT !.pc = "panic"]
                       ELSE [@ EXCEPT !.pc = "build", !.b = j.bytes]]
    /\ UNCHANGED instance
    /\ UNCHANGED nonConcurrent

\* a plausible slip: the first endpoint built is kept in a field of the
\* client and used by every call
BuildBy_EndpointInClient(i) ==
    /\ calls[i].pc = "build"
    /\ \E order \in Perms(DOMAIN calls[i].request.Query) :
          LET u == IF instance = <<>>
                   THEN QueryEndpoint(calls[i].endpoint,
                                      calls[i].request.Query, order)
                   ELSE instance
              r == NewRequest(calls[i].method, u, calls[i].b)
          IN /\ instance' = u
             /\ calls' = [calls EXCEPT ![i] =
                             IF r.built
                             THEN [@ EXCEPT !.endpoint = u, !.req = r,
                                            !.pc = "headers"]
                             ELSE [@ EXCEPT !.endpoint = u, !.pc = "done",
                                            !.retResp = NilResponse,
                                            !.retErr = "build"]]
    /\ UNCHANGED nonConcurrent

\* lines 23-29 in the call of caller i
BuildBy(i) ==
    /\ calls[i].pc = "build"
    /\ \E order \in Perms(DOMAIN calls[i].request.Query) :
          LET u == QueryEndpoint(calls[i].endpoint, calls[i].request.Query,
                                 order)
              r == NewRequest(calls[i].method, u, calls[i].b)
          IN calls' = [calls EXCEPT ![i] =
                          IF r.built
                          THEN [@ EXCEPT !.endpoint = u, !.req = r,
                                         !.pc = "headers"]
                          ELSE [@ EXCEPT !.endpoint = u, !.pc = "done",
                                         !.retResp = NilResponse,
                                         !.retErr = "build"]]
    /\ UNCHANGED instance
    /\ UNCHANGED nonConcurrent

\* lines 31-33 in the call of caller i
ApplyHeadersBy(i) ==
    /\ calls[i].pc = "headers"
    /\ \E order \in Perms(DOMAIN calls[i].request.Headers) :
          calls' = [calls EXCEPT ![i] =
                       [@ EXCEPT !.pc = "send",
                                 !.req.Header =
                                     RangeSet(calls[i].req.Header,
                                              calls[i].request.Headers,
                                              order)]]
    /\ UNCHANGED instance
    /\ UNCHANGED nonConcurrent

\* lines 35-39 in the call of caller i: its own http.Client, its own answer
SendBy(i) ==
    /\ calls[i].pc = "send"
    /\ \/ calls' = [calls EXCEPT ![i] =
                       [@ EXCEPT !.sends = @ + 1,
                                 !.wire = [NoWire EXCEPT !.called = TRUE,
                                                         !.err = TRUE],
                                 !.pc = "done",
                                 !.retResp = NilResponse,
                                 !.retErr = "transport"]]
       \/ \E st \in KStatuses, bd \in WireBodies :
             calls' = [calls EXCEPT ![i] =
                          [@ EXCEPT !.sends = @ + 1,
                                    !.wire = [called |-> TRUE, err |-> FALSE,
                                              StatusCode |-> st,
                                              Header |-> <<>>, Body |-> bd],
                                    !.pc = "read"]]
    /\ UNCHANGED instance
    /\ UNCHANGED nonConcurrent

\* lines 41-46 in the call of caller i
ReadBodyBy(i) ==
    /\ calls[i].pc = "read"
    /\ \/ calls' = [calls EXCEPT ![i] =
                       [@ EXCEPT !.resBody = calls[i].wire.Body,
                                 !.pc = "return"]]
       \/ calls' = [calls EXCEPT ![i] =
                       [@ EXCEPT !.retResp = NilResponse, !.retErr = "read",
                                 !.closes = @ + 1, !.pc = "done"]]
    /\ UNCHANGED instance
    /\ UNCHANGED nonConcurrent

\* line 48 in the call of caller i
ReturnBy(i) ==
    /\ calls[i].pc = "return"
    /\ calls' = [calls EXCEPT ![i] =
                    [@ EXCEPT !.retResp = ResponseOf(calls[i].resBody),
                              !.retErr = "nil", !.closes = @ + 1,
                              !.pc = "done"]]
    /\ UNCHANGED instance
    /\ UNCHANGED nonConcurrent

\* ---------------------------------------------------------------------
\* Specifications
\* ---------------------------------------------------------------------
Init == QIdle /\ CInit /\ SIdle /\ RIdle /\ VIdle /\ AIdle /\ KIdle

\* a caller starts one call on the idle client
Call ==
    \E e \in Endpoints, r \in Requests :
        \/ \E m \in Methods : Request(m, e, r)
        \/ Get(e, r)
        \/ Post(e, r)
        \/ Put(e, r)
        \/ Patch(e, r)
        \/ Delete(e, r)

Next ==
    \/ pc = "idle" /\ Call
    \/ Serialize
    \/ Build
    \/ ApplyHeaders
    \/ Send
    \/ ReadBody
    \/ Return

\* the client: one Request call on a fresh client
Spec == Init /\ [][Next]_vars

NextQ ==
    \/ QueryParams_ToString
    \/ QueryParams_Empty

\* the query encoder: one ToString call on any bounded QueryParams
InitQ == QInit /\ CInit /\ SIdle /\ RIdle /\ VIdle /\ AIdle /\ KIdle

SpecQuery == InitQ /\ [][NextQ]_vars

\* the query encoder on keys and values of reserved characters
InitQRaw == QInitRaw /\ CInit /\ SIdle /\ RIdle /\ VIdle /\ AIdle /\ KIdle

SpecQueryRaw == InitQRaw /\ [][NextQ]_vars

NextS == Classify

InitS == QIdle /\ CInit /\ SInit /\ RIdle /\ VIdle /\ AIdle /\ KIdle

\* the status classifier: the five predicates on any bounded StatusCode
SpecStatus == InitS /\ [][NextS]_vars

NextR ==
    \/ \E shape \in TargetShapes : Response_Unmarshal(shape)
    \/ Response_ToString

InitR == QIdle /\ CInit /\ SIdle /\ RInit /\ VIdle /\ AIdle /\ KIdle

\* the response envelope: method calls on any bounded Response
SpecResponse == InitR /\ [][NextR]_vars

NextV ==
    \/ Validate
    \/ BaseRequest_Validate

InitV == QIdle /\ CInit /\ SIdle /\ RIdle /\ VInit /\ AIdle /\ KIdle

\* the validation adapter: one Validate call on any bounded request object
SpecValidate == InitV /\ [][NextV]_vars

\* a handler answers on its fresh context
Answer ==
    \E code \in AppCodes, payload \in APayloads,
       headers \in SeqsUpTo(AHeaderMaps, MaxHeaderMaps) :
        \/ \E status \in GenericStatuses :
              Response_Response(code, status, payload, headers)
        \/ \E name \in ResponderNames :
              Responder(name, code, payload, headers)

NextA == apc = "idle" /\ Answer

InitA == QIdle /\ CInit /\ SIdle /\ RIdle /\ VIdle /\ AIdle /\ KIdle

\* the API responder: one call of Response or of a named responder on a
\* fresh context
SpecAPI == InitA /\ [][NextA]_vars

\* a caller starts its call
CallBy(i) ==
    \E m \in KMethods, e \in Endpoints, r \in KRequests : InvokeBy(i, m, e, r)

NextK ==
    \E i \in Callers :
        \/ calls[i].pc = "idle" /\ CallBy(i)
        \/ SerializeBy(i)
        \/ BuildBy(i)
        \/ ApplyHeadersBy(i)
        \/ SendBy(i)
        \/ ReadBodyBy(i)
        \/ ReturnBy(i)

InitK == QIdle /\ CInit /\ SIdle /\ RIdle /\ VIdle /\ AIdle /\ KIdle

\* two goroutines, each making one Request call on the same client, their
\* steps interleaved in every way
SpecConcurrent == InitK /\ [][NextK]_vars

NextD ==
    \/ Next
    \/ Receive
    \/ NextR

\* the client and its caller: one Request call, then method calls on the
\* Response it returned
SpecClientDecode == Init /\ [][NextD]_vars

\* ---------------------------------------------------------------------
\* Properties of Pantopoda.Request
\* ---------------------------------------------------------------------
\* the set of elements of a sequence
Range(sq) == {sq[i] : i \in 1..Len(sq)}

\* the send returned a response and its body was read to the end
ExchangeCompleted ==
    pc = "done" /\ wire.called /\ ~wire.err /\ retErr # "read"

\* http.NewRequest was reached and returned an error
BuildHasFailed == "build" \in Range(steps) /\ ~req.built

\* client.Do was reached and returned an error
SendHasFailed == wire.called /\ wire.err

\* C1: a completed exchange with a status code >= 300 returns a non-nil
\* error together with a populated Response holding the raw body.
C1_FailureStatusReturnsErrorAndBody ==
    (ExchangeCompleted /\ wire.StatusCode >= 300)
        => /\ retErr # "nil"
           /\ ~retResp.nil
           /\ retResp.json = wire.Body

\* C2: when the envelope has no payload the call does not abort and the
\* body put on the outbound request is exactly the two bytes {}.
C2_NoPayloadSendsEmptyObject ==
    (op # "none" /\ ~HasBody(request) /\ "serialize" \in Range(steps))
        => /\ pc # "panic"
           /\ b = <<"{", "}">>
           /\ (req.built => req.Body = <<"{", "}">>)

\* C3: after a completed exchange the returned Response carries the raw
\* body, the status code of the wire response and its headers, as
\* newResponse builds them.
C3_ResponseCarriesStatusAndHeaders ==
    ExchangeCompleted => retResp = newResponse(wire, wire.Body)

\* C4: when building the outbound request fails, or the send fails, the
\* call has returned a nil Response and a non-nil error, and no step after
\* the failing one has been executed.
C4_TransportFailureReturnsAtOnce ==
    /\ BuildHasFailed
          => /\ pc = "done"
             /\ retResp = NilResponse
             /\ retErr # "nil"
             /\ steps = <<"serialize", "build">>
    /\ SendHasFailed
          => /\ pc = "done"
             /\ retResp = NilResponse
             /\ retErr # "nil"
             /\ steps = <<"serialize", "build", "headers", "send">>
             /\ closes = 0

\* a call whose send failed has returned
C4_Witness == pc = "done" /\ SendHasFailed /\ retErr = "transport"

C6_EndpointCarriesQuery ==
    "build" \in Range(steps)
        => /\ IF DOMAIN request.Query # {}
              THEN \E s \in ToStringResults(request.Query) :
                      endpoint = argEndpoint \o <<"?">> \o s
              ELSE endpoint = argEndpoint
           /\ req.built => req.URL = endpoint

\* a call with a two-key query built its request and returned
C6_Witness ==
    /\ pc = "done"
    /\ req.built
    /\ Cardinality(DOMAIN request.Query) = 2
    /\ Len(endpoint) > Len(argEndpoint)

\* C7 as stated: every entry of RequestHeaders is on the outbound request
\* under exactly its own name, and names differing only in case stay
\* distinct headers.
C7_HeadersVerbatim ==
    "headers" \in Range(steps)
        => /\ \A n \in DOMAIN request.Headers :
                 /\ n \in DOMAIN req.Header
                 /\ req.Header[n] = << request.Headers[n] >>
           /\ Cardinality(DOMAIN req.Header)
                 = Cardinality(DOMAIN request.Headers)

\* C7 as amended: every entry of RequestHeaders is on the outbound request
\* under the canonical MIME form of its name, carrying the value of an
\* entry whose name has that canonical form; the outbound request has no
\* other header, so names differing only in case collapse into one.
C7_HeadersCanonical ==
    "headers" \in Range(steps)
        => /\ DOMAIN req.Header
                 = {CanonicalMIMEHeaderKey(n) : n \in DOMAIN request.Headers}
           /\ \A n \in DOMAIN request.Headers :
                 \E n2 \in DOMAIN request.Headers :
                    /\ CanonicalMIMEHeaderKey(n2) = CanonicalMIMEHeaderKey(n)
                    /\ req.Header[CanonicalMIMEHeaderKey(n)]
                          = << request.Headers[n2] >>

\* two names that differ only in case, with different values, were applied
C7_Witness ==
    /\ "headers" \in Range(steps)
    /\ {<<"a">>, <<"A">>} \subseteq DOMAIN request.Headers
    /\ request.Headers[<<"a">>] # request.Headers[<<"A">>]
    /\ <<"b", "-", "c">> \in DOMAIN request.Headers

\* C8: Get, Post, Put, Patch and Delete are Request with the method string
\* GET, POST, PUT, PATCH and DELETE: that string is the method of the call
\* and of the outbound request.
C8_ConvenienceMethods ==
    LET fixed == [Get |-> GET, Post |-> POST, Put |-> PUT, Patch |-> PATCH,
                  Delete |-> DELETE]
    IN \A name \in DOMAIN fixed :
          op = name => /\ method = fixed[name]
                       /\ req.built => req.Method = fixed[name]

\* a Put call ran to its end
C8_Witness == op = "Put" /\ pc = "done" /\ req.built /\ ExchangeCompleted

\* ---------------------------------------------------------------------
\* Properties of QueryParams.ToString
\* ---------------------------------------------------------------------
\* t starts with p
HasPrefix(t, p) == Len(t) >= Len(p) /\ SubSeq(t, 1, Len(p)) = p

RECURSIVE OffsetOf(_, _)
\* number of characters before token j in a text that puts one separator
\* character between consecutive tokens
OffsetOf(toks, j) ==
    IF j = 1 THEN 0 ELSE OffsetOf(toks, j - 1) + Len(toks[j - 1]) + 1

\* C9: a key with exactly one value v yields exactly one token key=v, with
\* no bracket added; {"a": ["1"]} serializes to a=1.
C9_SingleValuePlainToken ==
    qpc = "done"
        => /\ \A k \in DOMAIN q :
                 Len(q[k]) = 1
                    => Cardinality({i \in 1..Len(outSlice) :
                          outSlice[i] = k \o <<"=">> \o q[k][1]}) = 1
           /\ q = (<<"a">> :> << <<"1">> >>) => out = <<"a", "=", "1">>

\* C10: a key with more than one value yields one token key[]=value per
\* value, in the order of the values, and the result is the tokens with
\* exactly one & between consecutive tokens and none before the first or
\* after the last.
C10_MultiValueTokensJoined ==
    qpc = "done"
        => /\ \A k \in DOMAIN q :
                 Len(q[k]) > 1
                    => SelectSeq(outSlice,
                                 LAMBDA t : HasPrefix(t, k \o <<"[", "]", "=">>))
                          = [i \in 1..Len(q[k]) |->
                                k \o <<"[", "]", "=">> \o q[k][i]]
           /\ outSlice = <<>> => out = <<>>
           /\ outSlice # <<>>
                 => Len(out) = OffsetOf(outSlice, Len(outSlice))
                                  + Len(outSlice[Len(outSlice)])
           /\ \A j \in 1..Len(outSlice) :
                 /\ SubSeq(out, OffsetOf(outSlice, j) + 1,
                           OffsetOf(outSlice, j) + Len(outSlice[j]))
                       = outSlice[j]
                 /\ j > 1 => out[OffsetOf(outSlice, j)] = "&"

\* a mapping with a multi-valued key and a second key was serialized
C10_Witness ==
    /\ qpc = "done"
    /\ Cardinality(DOMAIN q) = 2
    /\ \E k \in DOMAIN q : Len(q[k]) = MaxVals
    /\ Len(outSlice) > MaxVals

\* C11: Empty() is true exactly when the mapping has no key, a mapping
\* with no key serializes to the empty string, and a mapping with a key
\* whose value sequence is empty is not Empty.
C11_EmptyIffNoKeys ==
    /\ emptyRet # "none" => (emptyRet = "true" <=> DOMAIN q = {})
    /\ (qpc = "done" /\ DOMAIN q = {}) => out = <<>>
    /\ (\E k \in DOMAIN q : q[k] = <<>>) => emptyRet # "true"

\* Empty and ToString were both called on a mapping whose only key has no
\* value
C11_Witness ==
    /\ qpc = "done"
    /\ emptyRet = "false"
    /\ DOMAIN q = {<<"a">>}
    /\ q[<<"a">>] = <<>>

\* ---------------------------------------------------------------------
\* Properties of StatusCode
\* ---------------------------------------------------------------------
\* the predicates that returned true for sc
Holding == {n \in DOMAIN class : class[n]}

\* C12: IsInternalError(v) holds exactly when v > 500; it is false for 500
\* and true for 501.
C12_InternalErrorAbove500 ==
    spc = "done"
        => /\ class.IsInternalError <=> sc > 500
           /\ sc = 500 => ~class.IsInternalError
           /\ sc = 501 => class.IsInternalError

\* the predicates were called on the boundary value 500
C12_Witness == spc = "done" /\ sc = 500 /\ ~class.IsInternalError

\* C13: for 100 <= v < 500 exactly one of IsInformational, IsSuccess,
\* IsRedirection, IsClientError holds, the one of v's hundred-band, and
\* IsInternalError is false.
C13_OneBandBelow500 ==
    (spc = "done" /\ sc >= 100 /\ sc < 500)
        => /\ Holding = { IF sc < 200 THEN "IsInformational"
                          ELSE IF sc < 300 THEN "IsSuccess"
                          ELSE IF sc < 400 THEN "IsRedirection"
                          ELSE "IsClientError" }
           /\ ~class.IsInternalError

\* the predicates were called on the first value of a band
C13_Witness == spc = "done" /\ sc = 300 /\ Holding = {"IsRedirection"}

\* C14: for every v in 100..599 exactly one of the five predicates holds.
C14_ExactlyOneIn100To599 ==
    (spc = "done" /\ sc >= 100 /\ sc <= 599) => Cardinality(Holding) = 1

\* ---------------------------------------------------------------------
\* Properties of Response
\* ---------------------------------------------------------------------
\* C15: Unmarshal and ToString only read the Response: after any sequence
\* of calls, failing ones included, its bytes, status code and headers are
\* as they were, and the outcome of the latest Unmarshal is the one a first
\* Unmarshal of the original bytes into the same shape gives.
C15_UnmarshalIsPureRead ==
    /\ resp = resp0
    /\ lastOp = "Unmarshal"
          => /\ decErr = Unmarshal(resp0.json, target).err
             /\ decVal = Unmarshal(resp0.json, target).val

\* a second call, a failing Unmarshal, was made on an object body
C15_Witness ==
    /\ rpc = "held"
    /\ ncalls = MaxCalls
    /\ lastOp = "Unmarshal"
    /\ target = "int"
    /\ decErr = "type"
    /\ resp0.json = <<"{", "}">>

\* C16: a body that is not JSON does not make Request fail: the Response
\* for it is returned as for any body, and the decode error appears only
\* from, and from every, Unmarshal call on it.
C16_DecodeErrorOnlyAtUnmarshal ==
    /\ ExchangeCompleted
          => /\ ~retResp.nil
             /\ retResp.json = wire.Body
             /\ retErr # "nil" => wire.StatusCode >= 300
    /\ (lastOp = "Unmarshal" /\ resp0.json = <<"x">>) => decErr = "syntax"
    /\ decErr # "nil" => target # "none"

\* Request returned a body that is not JSON and Unmarshal was called on it
C16_Witness ==
    /\ ExchangeCompleted
    /\ wire.Body = <<"x">>
    /\ retErr = "nil"
    /\ lastOp = "Unmarshal"
    /\ ncalls = MaxCalls
    /\ decErr = "syntax"

\* C17: ToString returns exactly the body bytes received from the remote,
\* JSON or not.
C17_ToStringIsRawBody ==
    lastOp = "ToString"
        => /\ strRet = resp0.json
           /\ wire.called => strRet = wire.Body

\* ToString was called on a received body that is not JSON
C17_Witness ==
    /\ lastOp = "ToString"
    /\ wire.called
    /\ wire.Body = <<"x">>
    /\ strRet = <<"x">>

\* ---------------------------------------------------------------------
\* Properties of Validate
\* ---------------------------------------------------------------------
\* the rule engine could evaluate the object and found no failed rule
NoFailure == vobj.evaluable /\ vobj.violations = <<>>

\* the snake_case form of the struct field names of the model
SnakeName(field) ==
    IF field = UserName
    THEN <<"u", "s", "e", "r", "_", "n", "a", "m", "e">>
    ELSE <<"a", "g", "e">>

\* C18: when the rule engine reports no failure Validate returns the zero
\* ValidationError (ErrorType unset, ErrorBag unset), and a returned
\* ValidationError has an unset ErrorType only in that case.
C18_NoFailureGivesZeroValue ==
    vpc = "done"
        => /\ NoFailure
                => /\ verr.ErrorType = ""
                   /\ ~verr.ErrorBag.set
                   /\ verr.ErrorBag.entries = <<>>
           /\ verr.ErrorType = "" => NoFailure

\* Validate returned for an object without failures
C18_Witness == vpc = "done" /\ NoFailure /\ verr.ErrorType = ""

\* C19: when the rule engine cannot evaluate the object Validate returns
\* bad_request with no ErrorBag, and a returned ValidationError carries an
\* ErrorBag only with ErrorType validation_failed.
C19_BadRequestHasNoBag ==
    vpc = "done"
        => /\ ~vobj.evaluable
                => /\ verr.ErrorType = "bad_request"
                   /\ ~verr.ErrorBag.set
           /\ verr.ErrorBag.set => verr.ErrorType = "validation_failed"

\* Validate returned for an object the engine cannot evaluate
C19_Witness ==
    vpc = "done" /\ ~vobj.evaluable /\ verr.ErrorType = "bad_request"

\* C20: when the rule engine reports failures Validate returns
\* validation_failed with an ErrorBag that got one Append per failure, in
\* the engine's order, keyed by the snake_case field name and carrying the
\* translation looked up from (object, field, tag).
C20_OneAppendPerFailure ==
    (vpc = "done" /\ vobj.evaluable /\ vobj.violations # <<>>)
        => /\ verr.ErrorType = "validation_failed"
           /\ verr.ErrorBag.set
           /\ Len(verr.ErrorBag.entries) = Len(vobj.violations)
           /\ \A i \in 1..Len(vobj.violations) :
                 /\ verr.ErrorBag.entries[i].key
                       = SnakeName(vobj.violations[i].field)
                 /\ verr.ErrorBag.entries[i].msg
                       = <<vobj.typ, vobj.violations[i].field,
                           vobj.violations[i].tag>>

\* Validate returned for an object with several failures, UserName among
\* them and not first
C20_Witness ==
    /\ vpc = "done"
    /\ Len(vobj.violations) = MaxFailures
    /\ vobj.violations[1].field = Age
    /\ vobj.violations[2].field = UserName
    /\ verr.ErrorBag.entries[2].key
          = <<"u", "s", "e", "r", "_", "n", "a", "m", "e">>

\* ---------------------------------------------------------------------
\* Properties of Pantopoda.Request: encoding failures and the body stream
\* ---------------------------------------------------------------------
\* the payload is a JSONBody or JSONArray holding a value encoding/json
\* rejects
Unencodable(p) ==
    \/ p.kind = "JSONBody" /\ ~p.null /\ \E k \in DOMAIN p.val : p.val[k] = "chan"
    \/ p.kind = "JSONArray" /\ ~p.null
          /\ \E i \in 1..Len(p.val) : \E k \in DOMAIN p.val[i] : p.val[i][k] = "chan"

\* C21: a payload that cannot be encoded as JSON makes the call panic at
\* the serialization step; the call returns no error value, no outbound
\* request is built and nothing is sent.
C21_EncodingFailurePanicsBeforeSend ==
    (pc \notin {"idle", "start"} /\ Unencodable(request.Payload)) =>
        /\ pc = "panic"
        /\ steps = <<"serialize">>
        /\ retErr = "nil"
        /\ retResp = NilResponse
        /\ req = NoReq
        /\ sends = 0
        /\ wire = NoWire

C21_Witness ==
    /\ pc = "panic"
    /\ request.Payload = JSONArrayOf(<< (<<"k">> :> "chan") >>)
    /\ op = "Post"

\* the number of positions of the step log holding x
CountOf(sq, x) == Cardinality({i \in 1..Len(sq) : sq[i] = x})

\* C29: when the send returned a response its body is closed exactly
\* once, not before the read and before the call returns, on the
\* successful and on the failed read alike; a failed read returns an error
\* and no Response; when the send failed nothing is closed.
C29_BodyClosedExactlyOnce ==
    /\ closes = CountOf(steps, "close")
    /\ closes <= 1
    /\ pc \in {"read", "return"} => closes = 0
    /\ pc = "done" =>
          /\ (wire.called /\ ~wire.err) =>
                /\ closes = 1
                /\ steps[Len(steps)] = "close"
                /\ \/ retErr = "nil" /\ retResp = ResponseOf(wire.Body)
                   \/ retErr = "read" /\ retResp = NilResponse
          /\ (~wire.called \/ wire.err) => closes = 0
          /\ retErr = "read" => wire.called /\ ~wire.err

C29_Witness ==
    /\ pc = "done"
    /\ retErr = "read"
    /\ closes = 1
    /\ retResp = NilResponse

\* ---------------------------------------------------------------------
\* Properties of QueryParams.ToString: raw text and token count
\* ---------------------------------------------------------------------
\* t occurs in u as a contiguous run of characters
OccursIn(t, u) ==
    \E i \in 0..(Len(u) - Len(t)) : SubSeq(u, i + 1, i + Len(t)) = t

RECURSIVE SumLen(_)
\* total number of characters of a sequence of texts
SumLen(ts) == IF ts = <<>> THEN 0 ELSE Len(Head(ts)) + SumLen(Tail(ts))

RECURSIVE SumOver(_, _)
\* the sum of f over the set S
SumOver(f, S) ==
    IF S = {} THEN 0
    ELSE LET x == CHOOSE y \in S : TRUE IN f[x] + SumOver(f, S \ {x})

\* the characters of the output that are the keys' and values' own plus
\* the characters the format adds, when nothing is escaped
RawLength(qp) ==
    LET perKey == [k \in DOMAIN qp |->
                     IF Len(qp[k]) > 1
                     THEN Len(qp[k]) * (Len(k) + 3) + SumLen(qp[k])
                                                    + (Len(qp[k]) - 1)
                     ELSE Len(k) + 3 + SumLen(qp[k])]
    IN SumOver(perKey, DOMAIN qp)
          + (IF DOMAIN qp = {} THEN 0 ELSE Cardinality(DOMAIN qp) - 1)

\* C24: ToString escapes nothing: every key and every value is in the
\* output character for character, also when it holds & = ? [ ] or a
\* space; the output has no character and no length an encoding would add.
C24_NoEscaping ==
    qpc = "done"
        => /\ \A k \in DOMAIN q :
                 /\ \E i \in 1..Len(outSlice) : HasPrefix(outSlice[i], k \o <<"=">>)
                                                 \/ HasPrefix(outSlice[i], k \o <<"[", "]", "=">>)
                 /\ \A j \in 1..Len(q[k]) :
                       \E i \in 1..Len(outSlice) :
                          /\ HasPrefix(outSlice[i], k)
                          /\ OccursIn(q[k][j],
                                      SubSeq(outSlice[i], Len(k) + 1,
                                             Len(outSlice[i])))
           /\ Range(out) \subseteq {"&", "=", "?", "[", "]", " "}
           /\ Len(out) = RawLength(q)

\* keys and values holding & = ? [ ] and a space were serialized
C24_Witness ==
    /\ qpc = "done"
    /\ q = (<<"&", "=">> :> << <<" ", "&">>, <<"[", "]">> >>)
            @@ (<<"?", " ">> :> << <<"=">> >>)

\* the number of tokens the mapping calls for
TokenCount(qp) ==
    SumOver([k \in DOMAIN qp |-> IF Len(qp[k]) > 1 THEN Len(qp[k]) ELSE 1],
            DOMAIN qp)

\* C30: ToString yields, for every key, as many tokens as the key has
\* values when it has more than one and one token otherwise, a key with
\* no value included; the tokens are the same set whatever the order in
\* which the keys are visited.
C30_TokenCount ==
    qpc = "done"
        => /\ Len(outSlice) = TokenCount(q)
           /\ outSlice # <<>> => CountOf(out, "&") = TokenCount(q) - 1
           /\ \A k \in DOMAIN q :
                 Len(q[k]) = 0
                    => Cardinality({i \in 1..Len(outSlice) :
                                       HasPrefix(outSlice[i], k \o <<"=">>)}) = 1
           /\ \A o \in Perms(DOMAIN q) :
                 Range(RangeAppend(q, o)) = Range(outSlice)

\* a key without values and a key with two values were serialized
C30_Witness ==
    /\ qpc = "done"
    /\ \E k1, k2 \in DOMAIN q : Len(q[k1]) = 0 /\ Len(q[k2]) = 2
    /\ Len(outSlice) = 3

\* ---------------------------------------------------------------------
\* Properties of BaseRequest.Validate
\* ---------------------------------------------------------------------
\* C28: on an object whose type embeds BaseRequest, the inherited
\* Validate method returns the ValidationError the package-level Validate
\* returns for that object: same ErrorType, same ErrorBag entries in the
\* same order, a violated rule on the embedding type's own field included.
C28_InheritedValidateAgrees ==
    (vpc = "done" /\ bpc = "done") => berr = verr

\* ---------------------------------------------------------------------
\* Properties of the API Response
\* ---------------------------------------------------------------------
\* the status each named responder's documentation states
DocumentedStatus ==
           ("Continue" :> 100) @@ ("SwitchingProtocols" :> 101)
       @@ ("Processing" :> 102) @@ ("OK" :> 200) @@ ("Created" :> 201)
       @@ ("Accepted" :> 202) @@ ("NoAuthoritativeInformation" :> 203)
       @@ ("NoContent" :> 204) @@ ("ResetContent" :> 205)
       @@ ("PartialContent" :> 206) @@ ("MultiStatus" :> 207)
       @@ ("AlreadyReported" :> 208) @@ ("IMUsed" :> 226)
       @@ ("MultipleChoices" :> 300) @@ ("MovedPermanently" :> 301)
       @@ ("Found" :> 302) @@ ("SeeOther" :> 303) @@ ("NotModified" :> 304)
       @@ ("UseProxy" :> 305) @@ ("TemporaryRedirect" :> 307)
       @@ ("PermanentRedirect" :> 308) @@ ("BadRequest" :> 400)
       @@ ("Unauthorized" :> 401) @@ ("PaymentRequired" :> 402)
       @@ ("Forbidden" :> 403) @@ ("NotFound" :> 404)
       @@ ("MethodNotAllowed" :> 405) @@ ("NotAcceptable" :> 406)
       @@ ("ProxyAuthRequired" :> 407) @@ ("RequestTimeout" :> 408)
       @@ ("Conflict" :> 409) @@ ("Gone" :> 410)
       @@ ("LengthRequired" :> 411) @@ ("PreconditionFailed" :> 412)
       @@ ("PayloadTooLarge" :> 413) @@ ("RequestURITooLong" :> 414)
       @@ ("UnsupportedMediaType" :> 415)
       @@ ("RequestedRangeNotSatisfiable" :> 416)
       @@ ("ExpectationFailed" :> 417) @@ ("ImATeapot" :> 418)
       @@ ("MisdirectedRequest" :> 421) @@ ("UnprocessableEntity" :> 422)
       @@ ("Locked" :> 423) @@ ("FailedDependency" :> 424)
       @@ ("UpgradeRequired" :> 426) @@ ("PreconditionRequired" :> 428)
       @@ ("TooManyRequests" :> 429)
       @@ ("RequestHeaderFieldsTooLarge" :> 431)
       @@ ("ConnectionClosedWithoutResponse" :> 444)
       @@ ("UnavailableForLegalReasons" :> 451)
       @@ ("ClientClosedRequest" :> 499) @@ ("InternalServerError" :> 500)
       @@ ("NotImplemented" :> 501) @@ ("BadGateway" :> 502)
       @@ ("ServiceUnavailable" :> 503) @@ ("GatewayTimeout" :> 504)
       @@ ("HTTPVersionNotSupported" :> 505)
       @@ ("VariantAlsoNegotiates" :> 506) @@ ("InsufficientStorage" :> 507)
       @@ ("LoopDetected" :> 508) @@ ("NotExtended" :> 510)
       @@ ("NetworkAuthenticationRequired" :> 511)
       @@ ("NetworkConnectTimeoutError" :> 599)

\* what Response writes for the call's code, payload and headers with the
\* given status, in some iteration order of the merged headers
GenericOutputs(status) ==
    {ContextCalls(status, MergeHeaders(aheaders), order,
                  ResponseBody(acode, PayloadMap(apayload))) :
        order \in Perms(DOMAIN MergeHeaders(aheaders))}

\* C23: every named responder writes exactly what Response writes for the
\* same code, payload and headers with the status the responder's
\* documentation states.
C23_RespondersForwardDocumentedStatus ==
    /\ DOMAIN DocumentedStatus = ResponderNames
    /\ (apc = "done" /\ aop # "Response")
          => /\ astatus = DocumentedStatus[aop]
             /\ ctxLog \in GenericOutputs(DocumentedStatus[aop])
             /\ ctxLog[1] = CtxStatusCode(DocumentedStatus[aop])

\* a responder after blank identifiers of its const block was called with
\* two header maps
C23_Witness ==
    /\ apc = "done"
    /\ aop = "RequestHeaderFieldsTooLarge"
    /\ ctxLog[1].status = 431
    /\ Len(aheaders) = 2
    /\ apayload.Message = "m"

\* the body written by the call
WrittenBody == ctxLog[Len(ctxLog)].body

\* C25: the JSON body written always has the key "code" with the code
\* string passed in, and has the payload's message and data each exactly
\* when it is non-empty, with the payload's value; it has no other key.
C25_BodyHasCodeAndNonEmptyEntries ==
    apc = "done"
        => /\ ctxLog[Len(ctxLog)].call = "JSON"
           /\ "code" \in DOMAIN WrittenBody
           /\ WrittenBody["code"] = GoString(acode)
           /\ "message" \in DOMAIN WrittenBody <=> apayload.Message # ""
           /\ "message" \in DOMAIN WrittenBody
                 => WrittenBody["message"] = GoString(apayload.Message)
           /\ "data" \in DOMAIN WrittenBody
                 <=> apayload.Data \notin {GoNil, GoString("")}
           /\ "data" \in DOMAIN WrittenBody
                 => WrittenBody["data"] = apayload.Data
           /\ DOMAIN WrittenBody \subseteq {"code", "message", "data"}

\* a call with an empty message and a non-empty data was answered
C25_Witness ==
    /\ apc = "done"
    /\ apayload = [Message |-> "", Data |-> GoString("d")]
    /\ DOMAIN WrittenBody = {"code", "data"}
    /\ acode = ""

\* the positions of the log that set the header k
HeaderCallsOf(k) ==
    {i \in 1..Len(ctxLog) : ctxLog[i].call = "Header" /\ ctxLog[i].key = k}

\* C26: the header maps are merged left to right: every key of any map is
\* set on the context exactly once, with the value of the last map that
\* has the key, and no other header is set.
C26_HeadersMergedLastWins ==
    apc = "done"
        => /\ \A i \in 1..Len(aheaders) : \A k \in DOMAIN aheaders[i] :
                 /\ Cardinality(HeaderCallsOf(k)) = 1
                 /\ \A p \in HeaderCallsOf(k) :
                       LET last == CHOOSE j \in 1..Len(aheaders) :
                                      /\ k \in DOMAIN aheaders[j]
                                      /\ \A m \in (j + 1)..Len(aheaders) :
                                            k \notin DOMAIN aheaders[m]
                       IN ctxLog[p].value = aheaders[last][k]
           /\ \A p \in 1..Len(ctxLog) :
                 ctxLog[p].call = "Header"
                    => \E i \in 1..Len(aheaders) :
                          ctxLog[p].key \in DOMAIN aheaders[i]

\* two maps with different values under one key were passed
C26_Witness ==
    /\ apc = "done"
    /\ Len(aheaders) = 2
    /\ "X" \in DOMAIN aheaders[1] /\ "X" \in DOMAIN aheaders[2]
    /\ aheaders[1]["X"] = "1" /\ aheaders[2]["X"] = "2"
    /\ "Y" \in DOMAIN aheaders[1]

\* C27: the calls on the context come in a fixed order: the status is set
\* first and once, then the headers are set, then the body is written,
\* once and last; before the call nothing is written.
C27_StatusHeadersBody ==
    /\ apc = "idle" => ctxLog = <<>>
    /\ apc = "done"
          => /\ Len(ctxLog) >= 2
             /\ ctxLog[1].call = "StatusCode"
             /\ ctxLog[1].status = astatus
             /\ ctxLog[Len(ctxLog)].call = "JSON"
             /\ \A i \in 2..(Len(ctxLog) - 1) : ctxLog[i].call = "Header"

\* a call that set two headers was answered
C27_Witness ==
    /\ apc = "done"
    /\ Len(ctxLog) = 4
    /\ ctxLog[2].call = "Header" /\ ctxLog[3].call = "Header"
    /\ aop = "Response"

\* ---------------------------------------------------------------------
\* Properties of concurrent Request calls
\* ---------------------------------------------------------------------
\* the outbound requests a call with these parameters hands to client.Do
\* when it runs alone
AloneRequests(m, e, r) ==
    {[built |-> TRUE, Method |-> m, URL |-> QueryEndpoint(e, r.Query, qo),
      Body |-> PayloadToJSON(r.Payload).bytes,
      Header |-> RangeSet(<<>>, r.Headers, ho)] :
        qo \in Perms(DOMAIN r.Query), ho \in Perms(DOMAIN r.Headers)}

\* the results (response, error) a call with these parameters returns
\* when it runs alone and the remote's answer is w
AloneResults(m, e, r, w) ==
    IF ~(ValidMethod(m) /\ ParseOK(e))
    THEN {<<NilResponse, "build">>}
    ELSE IF w.err THEN {<<NilResponse, "transport">>}
    ELSE {<<ResponseOf(w.Body), "nil">>, <<NilResponse, "read">>}

\* C22: calls running concurrently on one client do not interfere: no
\* step writes the client, and in every interleaving each call's outbound
\* request and result are those its own parameters and its own remote
\* answer give when the call runs alone.
C22_ConcurrentCallsIndependent ==
    /\ instance = <<>>
    /\ \A i \in Callers :
          LET c == calls[i]
          IN /\ c.pc = "panic" <=> (c.pc # "idle" /\ c.pc # "start"
                                       /\ Unencodable(c.request.Payload))
             /\ c.pc \in {"send", "read", "return"}
                   => c.req \in AloneRequests(c.method, c.argEndpoint,
                                              c.request)
             /\ c.wire.called
                   => c.req \in AloneRequests(c.method, c.argEndpoint,
                                              c.request)
             /\ c.pc = "done"
                   => <<c.retResp, c.retErr>>
                         \in AloneResults(c.method, c.argEndpoint, c.request,
                                          c.wire)
             /\ c.sends <= 1

\* both calls are in flight, with different methods, endpoints and
\* envelopes and different answers from the remote
C22_Witness ==
    /\ calls[1].pc = "return" /\ calls[2].pc = "read"
    /\ calls[1].method # calls[2].method
    /\ calls[1].req.URL # calls[2].req.URL
    /\ calls[1].req.Body # calls[2].req.Body
    /\ calls[1].req.Header # calls[2].req.Header
    /\ calls[1].wire # calls[2].wire

====
